---- MODULE Spec2Model ----
(***************************************************************************)
(* JNI glue of the Conversations client and of the Video room:             *)
(*   conversations/.../com_twilio_conversations_impl_ConversationsClientImpl.cpp *)
(*   library/.../com_twilio_video_Room.cpp                                 *)
(* A handle is a pointer cast to jlong; 0 is nullptr.  The heap holds the  *)
(* objects the handles point to.  A dereference of nullptr or of a freed   *)
(* object is undefined behaviour: the model takes every outcome (the       *)
(* process dies before the statement, dies after it, or runs on).          *)
(***************************************************************************)
EXTENDS Integers, Sequences, FiniteSets, TLC

\* ---- bounds of the model
MaxAddr == 3
NumSessions == 1
MaxLen == 4
MainMaxLen == 0

VARIABLES
    heap,          \* address -> the native object a handle points to
    sessions,      \* session handle -> state of the session (owned elsewhere)
    call,          \* the managed thread's current or last native call
    calls,         \* the native calls that call has issued, in order
    marshal,       \* createEndpoint's arguments, option map and array reads
    statsPending,  \* stats observers handed to Room::getStats, result not yet delivered
    cb,            \* observer address -> the native thread's callback on it
    nativeCrash    \* the process died in a native callback thread

vars == <<heap, sessions, call, calls, marshal, statsPending, cb, nativeCrash>>

Addr == 1..MaxAddr
\* the room contexts VideoClient's connect has made
RoomAddrs == {1}
Handle == 0..MaxAddr
SessionHandle == 0..NumSessions

\* ---- strings crossing the boundary
Chars == {"a", "b"}
JNull == <<"null">>
JStrings == {<<"jstring", c>> : c \in Chars}
GarbageStrings == {""} \cup Chars

\* jni->GetObjectArrayElement: an index out of range throws
\* ArrayIndexOutOfBoundsException and yields NULL.  i is 0-based.
GetObjectArrayElement(arr, i) ==
    IF i < Len(arr) THEN arr[i + 1] ELSE JNull

\* webrtc_jni::JavaToStdString: the characters of the Java string; of NULL
\* (with an exception pending) whatever the build yields, here g.
JavaToStdString(j, g) ==
    IF j = JNull THEN g ELSE j[2]

EmptyOptions == [k \in {} |-> ""]

\* mutation: std::map::insert, which keeps the first value of a key
MapInsert(options, key, value) ==
    IF key \in DOMAIN options THEN options
    ELSE [k \in DOMAIN options \cup {key} |-> IF k = key THEN value ELSE options[k]]

\* options[key] = value
MapPut(options, key, value) ==
    [k \in DOMAIN options \cup {key} |-> IF k = key THEN value ELSE options[k]]

\* the while loop of createEndpoint, from i on
RECURSIVE MarshalLoop(_, _, _, _, _)
MarshalLoop(arr, i, options, reads, g) ==
    IF ~(i < Len(arr)) THEN [options |-> options, reads |-> reads]
    ELSE LET jKey == GetObjectArrayElement(arr, i)
             jValue == GetObjectArrayElement(arr, i + 1)
             key == JavaToStdString(jKey, g)
             value == JavaToStdString(jValue, g)
         IN  MarshalLoop(arr, i + 2, MapPut(options, key, value),
                         reads \o <<i, i + 1>>, g)

MarshalOptions(arr, g) == MarshalLoop(arr, 0, EmptyOptions, <<>>, g)

OutOfRange(arr, reads) == \E k \in 1..Len(reads) : reads[k] >= Len(arr)

OptionArrays(n) == UNION {[1..k -> JStrings] : k \in 0..n}

\* ---- the access manager argument
\* jnull: the jobject is null; native: what getNativeHandle() returns;
\* token: AccessManager::getToken()
AccessManagers ==
    {[jnull |-> TRUE, native |-> 0, token |-> ""],
     [jnull |-> FALSE, native |-> 0, token |-> ""],
     [jnull |-> FALSE, native |-> 1, token |-> ""],
     [jnull |-> FALSE, native |-> 1, token |-> "tok"]}

\* what GetObjectClass/CallLongMethod on a null jobject may produce if the
\* process survives: any native access manager
GarbageAccessManagers == {am \in AccessManagers : ~am.jnull}

getNativeAccessMgrFromJava(am) == am.native

EndpointObservers == {0, 1}

\* ---- the heap
NoObject == [kind |-> "none", st |-> "unalloc", marked |-> FALSE, ref |-> 0]
NewObject(kind, ref) == [kind |-> kind, st |-> "live", marked |-> FALSE, ref |-> ref]

ObserverKinds == {"roomObserver", "statsObserver"}

FreeAddrs == {a \in Addr : heap[a].st = "unalloc"}
NextFree == CHOOSE a \in FreeAddrs : \A b \in FreeAddrs : a <= b

\* the handles of one kind the managed side can hold: null, live, or stale
HandlesOf(kind) ==
    {0} \cup {a \in Addr : heap[a].kind = kind /\ heap[a].st # "unalloc"}

Status(h) == IF h = 0 THEN "null" ELSE heap[h].st

Event(f, h, arg) == [f |-> f, h |-> h, arg |-> arg]

NoCall == [op |-> "none", h |-> 0, h2 |-> 0, ret |-> 0, phase |-> "idle",
           fault |-> "none", pc |-> 0]
NoMarshal == [arr |-> <<>>, am |-> [jnull |-> FALSE, native |-> 0, token |-> ""],
              obs |-> 0, options |-> EmptyOptions, reads |-> <<>>, exc |-> FALSE]
IdleCb == [pc |-> "idle", origin |-> "none"]

\* the managed thread is between two native calls
Ready == call.phase \in {"idle", "returned"} /\ ~nativeCrash
Alive == call.phase # "crashed" /\ ~nativeCrash

Init ==
    /\ heap = [a \in Addr |-> IF a \in RoomAddrs THEN NewObject("room", 0) ELSE NoObject]
    /\ sessions = [s \in 1..NumSessions |-> "live"]
    /\ call = NoCall
    /\ calls = <<>>
    /\ marshal = NoMarshal
    /\ statsPending = {}
    /\ cb = [a \in Addr |-> IdleCb]
    /\ nativeCrash = FALSE


\* ---- statements of the handlers
\* The state a handler's statements work on.
Work(hp, cs) == [heap |-> hp, calls |-> cs]

\* *endpoint: the shared pointer in the box; of a freed box whatever the memory holds (g)
BoxRef(hp, h, g) == IF h # 0 /\ hp[h].st = "live" THEN hp[h].ref ELSE g

\* one statement on the object behind handle h; x is its other argument
ExecStmt(s, h, x, S) ==
    CASE s = "setObserverDeleted" ->
           Work(IF h = 0 THEN S.heap ELSE [S.heap EXCEPT ![h].marked = TRUE],
                Append(S.calls, Event(s, h, 0)))
      [] s = "delete" ->
           IF h = 0 THEN S
           ELSE Work([S.heap EXCEPT ![h].st = "freed"],
                     Append(S.calls, Event(s, h, 0)))
      [] s = "destroyEndpoint" ->
           Work(S.heap, Append(S.calls, Event(s, h, BoxRef(S.heap, h, x))))
      [] s = "reset" ->
           Work(IF h = 0 THEN S.heap ELSE [S.heap EXCEPT ![h].ref = 0],
                Append(S.calls, Event(s, h, 0)))
      [] OTHER ->
           Work(S.heap, Append(S.calls, Event(s, h, x)))

RECURSIVE RunStmts(_, _, _, _)
RunStmts(stmts, h, x, S) ==
    IF stmts = <<>> THEN S
    ELSE RunStmts(Tail(stmts), h, x, ExecStmt(Head(stmts), h, x, S))

\* reinterpret_cast<T *>(h)-> : what dereferencing h is
DerefFault(h) ==
    IF h = 0 THEN "null_deref"
    ELSE IF heap[h].st = "freed" THEN "use_after_free"
    ELSE "none"

\* delete of what h points to, after its other uses
ReleaseFault(h) ==
    IF h = 0 THEN "null_deref"
    ELSE IF heap[h].st = "freed" THEN "double_free"
    ELSE "none"

\* Undefined behaviour: the process dies at the first bad access ("trap"),
\* dies after the statements ran on the bad memory ("abort", as an allocator
\* that detects the double free does), or goes on ("run").
Outcomes(fault) == IF fault = "none" THEN {"run"} ELSE {"trap", "abort", "run"}

CallRec(op, h, h2, ret, phase, fault, pc) ==
    [op |-> op, h |-> h, h2 |-> h2, ret |-> ret, phase |-> phase,
     fault |-> fault, pc |-> pc]

\* a handler that runs its statements on handle h without interleaving
Handler(op, h, h2, x, stmts, fault) ==
    \E out \in Outcomes(fault) :
        LET S0 == Work(heap, <<>>)
            S1 == IF out = "trap" THEN S0 ELSE RunStmts(stmts, h, x, S0)
        IN  /\ heap' = S1.heap
            /\ calls' = S1.calls
            /\ call' = CallRec(op, h, h2, 0,
                               IF out = "run" THEN "returned" ELSE "crashed", fault, 0)
            /\ marshal' = NoMarshal

\* a handler that returns at its null check
NoOp(op, h) ==
    /\ call' = CallRec(op, h, 0, 0, "returned", "none", 0)
    /\ calls' = <<>>
    /\ marshal' = NoMarshal
    /\ UNCHANGED heap

\* ======================= ConversationsClientImpl ==========================

ObserverIsNull(obs) == obs = 0
AccessManagerIsNull(amN) == getNativeAccessMgrFromJava(amN) = 0
TokenIsEmpty(amN) == amN.token = ""

\* Java_..._ConversationsClientImpl_createEndpoint(j_accessMgr, optionsArray,
\* nativeEndpointObserver)
createEndpointWith(am, arr, obs) ==
    /\ Ready
    /\ \E g \in (IF Len(arr) % 2 = 1 THEN GarbageStrings ELSE {""}),
          out1 \in (IF Len(arr) % 2 = 1 THEN {"trap", "run"} ELSE {"run"}),
          out2 \in (IF ~ObserverIsNull(obs) /\ am.jnull THEN {"trap", "run"} ELSE {"run"}) :
       \E amN \in (IF am.jnull /\ out2 = "run" /\ ~ObserverIsNull(obs)
                   THEN GarbageAccessManagers ELSE {am}) :
        LET m == MarshalOptions(arr, g)
            oob == OutOfRange(arr, m.reads)
            amFault == ~ObserverIsNull(obs) /\ am.jnull
            crashed == (oob /\ out1 = "trap") \/ (amFault /\ out2 = "trap")
            fault == IF oob THEN "out_of_range"
                     ELSE IF amFault THEN "null_deref" ELSE "none"
            invalid == ObserverIsNull(obs) \/ AccessManagerIsNull(amN) \/ TokenIsEmpty(amN)
            success == ~crashed /\ ~invalid
        IN  /\ success => FreeAddrs # {}
            /\ heap' = IF success
                       THEN [heap EXCEPT ![NextFree] = NewObject("endpoint", NextFree)]
                       ELSE heap
            /\ calls' = IF success
                        THEN <<Event("new", NextFree, 0),
                               Event("createEndpoint", NextFree, obs)>>
                        ELSE <<>>
            /\ call' = CallRec("createEndpoint", 0, 0,
                               IF success THEN NextFree ELSE 0,
                               IF crashed THEN "crashed" ELSE "returned", fault, 0)
            /\ marshal' = [arr |-> arr, am |-> am, obs |-> obs,
                           options |-> m.options, reads |-> m.reads, exc |-> oob]
    /\ UNCHANGED <<sessions, statsPending, cb, nativeCrash>>

createEndpoint ==
    \E am \in AccessManagers, arr \in OptionArrays(MainMaxLen), obs \in EndpointObservers :
        createEndpointWith(am, arr, obs)

\* mutation: the shared pointer is cleared before the SDK is asked to destroy it
FreeNativeHandleStmts_ResetFirst == <<"reset", "destroyEndpoint", "delete">>

ListenStmts == <<"registerEndpoint">>
UnlistenStmts == <<"unregisterEndpoint">>
RejectStmts == <<"reject">>
FreeNativeHandleStmts == <<"destroyEndpoint", "reset", "delete">>

listen(h) ==
    /\ Ready
    /\ h \in HandlesOf("endpoint")
    /\ Handler("listen", h, 0, 1, ListenStmts, DerefFault(h))
    /\ UNCHANGED <<sessions, statsPending, cb, nativeCrash>>

unlisten(h) ==
    /\ Ready
    /\ h \in HandlesOf("endpoint")
    /\ Handler("unlisten", h, 0, 0, UnlistenStmts, DerefFault(h))
    /\ UNCHANGED <<sessions, statsPending, cb, nativeCrash>>

\* mutation: reject takes the session down with it
reject_ConsumesSession(h, s) ==
    /\ Ready
    /\ h \in HandlesOf("endpoint")
    /\ s \in SessionHandle
    /\ Handler("reject", h, s, s, RejectStmts,
               IF s = 0 THEN "null_deref" ELSE DerefFault(h))
    /\ sessions' = [x \in DOMAIN sessions |-> IF x = s THEN "destroyed" ELSE sessions[x]]
    /\ UNCHANGED <<statsPending, cb, nativeCrash>>

reject(h, s) ==
    /\ Ready
    /\ h \in HandlesOf("endpoint")
    /\ s \in SessionHandle
    /\ Handler("reject", h, s, s, RejectStmts,
               IF s = 0 THEN "null_deref" ELSE DerefFault(h))
    /\ UNCHANGED <<sessions, statsPending, cb, nativeCrash>>

freeNativeHandle(h) ==
    /\ Ready
    /\ h \in HandlesOf("endpoint")
    /\ IF h = 0 THEN NoOp("freeNativeHandle", h)
       ELSE \E g \in (IF heap[h].st = "freed" THEN {0, h} ELSE {0}) :
                 Handler("freeNativeHandle", h, 0, g, FreeNativeHandleStmts,
                         ReleaseFault(h))
    /\ UNCHANGED <<sessions, statsPending, cb, nativeCrash>>


\* ============================== Room ======================================

\* mutation: the room context is never deleted
RoomReleaseStmts_Leak == <<>>
\* mutation: the adapter is deleted without being marked
RoomObserverReleaseStmts_NoMark == <<"isObserverValid", "delete">>
\* mutation: the adapter is deleted first and marked after
StatsObserverReleaseStmts_DeleteFirst == <<"delete", "setObserverDeleted">>

DisconnectStmts == <<"disconnect">>
GetStatsStmts == <<"getStats">>
RoomReleaseStmts == <<"delete">>
RoomObserverReleaseStmts == <<"setObserverDeleted", "delete">>
StatsObserverReleaseStmts == <<"setObserverDeleted", "delete">>

\* mutation: a null room context is answered with an early return
nativeDisconnect_NullChecked(h) ==
    /\ Ready
    /\ h \in HandlesOf("room")
    /\ IF h = 0 THEN NoOp("nativeDisconnect", h)
       ELSE Handler("nativeDisconnect", h, 0, 0, DisconnectStmts, DerefFault(h))
    /\ UNCHANGED <<sessions, statsPending, cb, nativeCrash>>

nativeDisconnect(h) ==
    /\ Ready
    /\ h \in HandlesOf("room")
    /\ Handler("nativeDisconnect", h, 0, 0, DisconnectStmts, DerefFault(h))
    /\ UNCHANGED <<sessions, statsPending, cb, nativeCrash>>

\* the observer pointer is handed on as it is, not dereferenced here
nativeGetStats(h, o) ==
    /\ Ready
    /\ h \in HandlesOf("room")
    /\ o \in HandlesOf("statsObserver")
    /\ Handler("nativeGetStats", h, o, o, GetStatsStmts, DerefFault(h))
    /\ statsPending' = IF calls' # <<>> /\ o # 0 THEN statsPending \cup {o}
                       ELSE statsPending
    /\ UNCHANGED <<sessions, cb, nativeCrash>>

nativeRelease(h) ==
    /\ Ready
    /\ h \in HandlesOf("room")
    /\ IF h = 0 THEN NoOp("nativeRelease", h)
       ELSE Handler("nativeRelease", h, 0, 0, RoomReleaseStmts, ReleaseFault(h))
    /\ UNCHANGED <<sessions, statsPending, cb, nativeCrash>>

\* new AndroidRoomObserver / new AndroidStatsObserver
ObserverCreate(op, kind) ==
    /\ Ready
    /\ FreeAddrs # {}
    /\ heap' = [heap EXCEPT ![NextFree] = NewObject(kind, 0)]
    /\ calls' = <<Event("new", NextFree, 0)>>
    /\ call' = CallRec(op, 0, 0, NextFree, "returned", "none", 0)
    /\ marshal' = NoMarshal
    /\ UNCHANGED <<sessions, statsPending, cb, nativeCrash>>

RoomListenerCreate == ObserverCreate("roomListenerCreate", "roomObserver")
StatsListenerCreate == ObserverCreate("statsListenerCreate", "statsObserver")

StmtFault(s, h) ==
    IF s = "delete" THEN (IF h = 0 THEN "none" ELSE ReleaseFault(h))
    ELSE DerefFault(h)

\* statement k of a release; native threads run between two statements
StepStmt(op, h, stmts, k) ==
    LET s == stmts[k]
        fault == StmtFault(s, h)
        first == IF k > 1 /\ call.fault # "none" THEN call.fault ELSE fault
    IN  \E out \in (IF fault = "none" THEN {"run"} ELSE {"trap", "run"}) :
          LET S0 == Work(heap, IF k = 1 THEN <<>> ELSE calls)
              S1 == IF out = "trap" THEN S0 ELSE ExecStmt(s, h, 0, S0)
          IN  /\ heap' = S1.heap
              /\ calls' = S1.calls
              /\ call' = CallRec(op, h, 0, 0,
                                 IF out = "trap" THEN "crashed"
                                 ELSE IF k = Len(stmts) THEN "returned" ELSE "running",
                                 first, k + 1)
              /\ marshal' = NoMarshal

\* entry of InternalRoomListenerHandle/InternalStatsListenerHandle nativeRelease:
\* the null check and the first statement
ObserverReleaseBegin(op, kind, stmts, h) ==
    /\ Ready
    /\ h \in HandlesOf(kind)
    /\ IF h = 0 THEN NoOp(op, h)
       ELSE StepStmt(op, h, stmts, 1)
    /\ UNCHANGED <<sessions, statsPending, cb, nativeCrash>>

\* its next statement
ObserverReleaseStep(op, stmts) ==
    /\ call.phase = "running"
    /\ call.op = op
    /\ StepStmt(op, call.h, stmts, call.pc)
    /\ UNCHANGED <<sessions, statsPending, cb, nativeCrash>>

\* mutation: the null check of the release is missing
RoomListenerRelease_NoNullCheck(h) ==
    /\ Ready
    /\ h \in HandlesOf("roomObserver")
    /\ StepStmt("roomListenerRelease", h, RoomObserverReleaseStmts, 1)
    /\ UNCHANGED <<sessions, statsPending, cb, nativeCrash>>

RoomListenerRelease(h) ==
    ObserverReleaseBegin("roomListenerRelease", "roomObserver",
                         RoomObserverReleaseStmts, h)
RoomListenerReleaseStep ==
    ObserverReleaseStep("roomListenerRelease", RoomObserverReleaseStmts)

StatsListenerRelease(h) ==
    ObserverReleaseBegin("statsListenerRelease", "statsObserver",
                         StatsObserverReleaseStmts, h)
StatsListenerReleaseStep ==
    ObserverReleaseStep("statsListenerRelease", StatsObserverReleaseStmts)

\* =================== the native SDK's callback threads =====================
\* AndroidRoomObserver / AndroidStatsObserver: a callback first checks the
\* deleted flag and then calls the managed listener; the check is no join.

\* where the release of observer o stands
RelPhase(o) ==
    IF heap[o].st = "freed" THEN "freed"
    ELSE IF call.phase = "running" /\ call.h = o THEN "releasing"
    ELSE "live"

\* the room may call its observer at any time, a stats observer once per getStats
CallbackTarget(o) ==
    \/ heap[o].kind = "roomObserver" /\ heap[o].st # "unalloc"
    \/ o \in statsPending


CallbackBegin(o) ==
    /\ Alive
    /\ CallbackTarget(o)
    /\ cb[o].pc = "idle"
    /\ IF heap[o].st = "freed"
       THEN \/ nativeCrash' = TRUE /\ UNCHANGED <<cb, statsPending>>
            \/ \E valid \in BOOLEAN :
                 /\ cb' = [cb EXCEPT ![o] = IF valid
                                            THEN [pc |-> "checked", origin |-> RelPhase(o)]
                                            ELSE IdleCb]
                 /\ statsPending' = statsPending \ {o}
                 /\ UNCHANGED nativeCrash
       ELSE /\ cb' = [cb EXCEPT ![o] = IF heap[o].marked
                                       THEN IdleCb
                                       ELSE [pc |-> "checked", origin |-> RelPhase(o)]]
            /\ statsPending' = statsPending \ {o}
            /\ UNCHANGED nativeCrash
    /\ UNCHANGED <<heap, sessions, call, calls, marshal>>

\* the call into the managed listener
CallbackDispatch(o) ==
    /\ Alive
    /\ cb[o].pc = "checked"
    /\ IF heap[o].st = "freed"
       THEN \/ nativeCrash' = TRUE /\ UNCHANGED cb
            \/ cb' = [cb EXCEPT ![o] = IdleCb] /\ UNCHANGED nativeCrash
       ELSE cb' = [cb EXCEPT ![o] = IdleCb] /\ UNCHANGED nativeCrash
    /\ UNCHANGED <<heap, sessions, call, calls, marshal, statsPending>>

\* ============================ specifications ===============================

Next ==
    \/ createEndpoint
    \/ \E h \in Handle : listen(h)
    \/ \E h \in Handle : unlisten(h)
    \/ \E h \in Handle, s \in SessionHandle : reject(h, s)
    \/ \E h \in Handle : freeNativeHandle(h)
    \/ \E h \in Handle : nativeDisconnect(h)
    \/ \E h \in Handle, o \in Handle : nativeGetStats(h, o)
    \/ \E h \in Handle : nativeRelease(h)
    \/ RoomListenerCreate
    \/ \E h \in Handle : RoomListenerRelease(h)
    \/ RoomListenerReleaseStep
    \/ StatsListenerCreate
    \/ \E h \in Handle : StatsListenerRelease(h)
    \/ StatsListenerReleaseStep
    \/ \E o \in Addr : CallbackBegin(o)
    \/ \E o \in Addr : CallbackDispatch(o)

Spec == Init /\ [][Next]_vars

\* createEndpoint alone, once, on each access manager, observer handle and
\* option array up to MaxLen: the arguments are drawn in the initial state
InitMarshal ==
    /\ heap = [a \in Addr |-> IF a \in RoomAddrs THEN NewObject("room", 0) ELSE NoObject]
    /\ sessions = [s \in 1..NumSessions |-> "live"]
    /\ call = NoCall
    /\ calls = <<>>
    /\ \E am \in AccessManagers, arr \in OptionArrays(MaxLen), obs \in EndpointObservers :
         marshal = [NoMarshal EXCEPT !.am = am, !.arr = arr, !.obs = obs]
    /\ statsPending = {}
    /\ cb = [a \in Addr |-> IdleCb]
    /\ nativeCrash = FALSE

NextMarshal ==
    /\ call.op = "none"
    /\ createEndpointWith(marshal.am, marshal.arr, marshal.obs)

SpecMarshal == InitMarshal /\ [][NextMarshal]_vars


\* ================================ claims ===================================

ReleaseOps == {"freeNativeHandle", "nativeRelease",
               "roomListenerRelease", "statsListenerRelease"}
ObserverReleaseOps == {"roomListenerRelease", "statsListenerRelease"}
ForwardOps == {"listen", "unlisten", "reject", "nativeDisconnect", "nativeGetStats"}

Issued(f) == \E k \in 1..Len(calls) : calls[k].f = f
Count(f) == Cardinality({k \in 1..Len(calls) : calls[k].f = f})
IsPrefix(s, u) == Len(s) <= Len(u) /\ \A k \in 1..Len(s) : s[k] = u[k]
HandleStatus == [a \in Addr |-> heap[a].st]

\* createEndpoint was called with a null observer handle, an access manager
\* whose native handle is null, or one whose token is empty
InvalidCreateArgs ==
    \/ marshal.obs = 0
    \/ ~marshal.am.jnull /\ (marshal.am.native = 0 \/ marshal.am.token = "")

\* C1: createEndpoint returns the null handle whenever the observer handle is
\* null, the access manager's native handle is null or its token is empty, and
\* then neither allocates the handle box nor invokes TSCSDK::createEndpoint.
C1_NullHandleOnInvalidArgs ==
    (call.op = "createEndpoint" /\ InvalidCreateArgs)
        => /\ call.phase = "returned"
           /\ call.ret = 0
           /\ ~Issued("createEndpoint")
           /\ ~Issued("new")

\* the pairs of an even-length option array
NumPairs(arr) == Len(arr) \div 2
KeyAt(arr, j) == arr[2 * j - 1][2]
ValueAt(arr, j) == arr[2 * j][2]
KeysOf(arr) == {KeyAt(arr, j) : j \in 1..NumPairs(arr)}
LastPairWith(arr, key) ==
    CHOOSE j \in 1..NumPairs(arr) :
        /\ KeyAt(arr, j) = key
        /\ \A i \in 1..NumPairs(arr) : KeyAt(arr, i) = key => i <= j
EvenCreate == call.op = "createEndpoint" /\ Len(marshal.arr) % 2 = 0

\* C2 as stated: for every option array of even length the option mapping
\* holds exactly length/2 entries.
C2_ExactlyHalfEntries ==
    EvenCreate => Cardinality(DOMAIN marshal.options) = NumPairs(marshal.arr)

\* C2 as amended: for every option array of even length the option mapping
\* holds one entry per distinct key (even-indexed element), mapped to the value
\* (odd-indexed element) of the last pair with that key; that is length/2
\* entries when the keys are pairwise distinct and fewer otherwise.
C2_LastWriteWins ==
    EvenCreate =>
        LET arr == marshal.arr
            options == marshal.options
        IN  /\ DOMAIN options = KeysOf(arr)
            /\ \A key \in KeysOf(arr) : options[key] = ValueAt(arr, LastPairWith(arr, key))
            /\ Cardinality(DOMAIN options) <= NumPairs(arr)
            /\ (\A i, j \in 1..NumPairs(arr) : i # j => KeyAt(arr, i) # KeyAt(arr, j))
                   => Cardinality(DOMAIN options) = NumPairs(arr)

\* C2 witness: two pairs with the same key and different values were
\* marshaled, and the mapping holds the later value.
C2_DuplicateKeyOverwritten ==
    /\ EvenCreate
    /\ Len(marshal.arr) = 4
    /\ marshal.arr[1] = marshal.arr[3]
    /\ marshal.arr[2] # marshal.arr[4]
    /\ marshal.options[marshal.arr[1][2]] = marshal.arr[4][2]

\* C3 as stated: a release of a live handle destroys the object exactly once,
\* and a second release with the same, already freed handle does not destroy
\* it again.
C3_SecondReleaseDoesNotDestroy ==
    (call.op \in ReleaseOps /\ call.h # 0)
        => /\ (call.fault = "none" /\ call.phase = "returned") => Count("delete") = 1
           /\ call.fault # "none" => Count("delete") = 0

\* C3 as amended: every release/free call on a non-null handle that returns
\* has deleted the object behind that handle exactly once and left it freed;
\* this holds of a live handle and, the layer keeping no record of freed
\* handles, of an already freed one too, whose release deletes again.
C3_OneDestroyPerCompletedRelease ==
    (call.op \in ReleaseOps /\ call.h # 0 /\ call.phase = "returned")
        => /\ Count("delete") = 1
           /\ \A k \in 1..Len(calls) : calls[k].f = "delete" => calls[k].h = call.h
           /\ heap[call.h].st = "freed"

\* C3 witness: a release of an already freed handle returned after deleting again.
C3_SecondReleaseDeletedAgain ==
    /\ call.op \in ReleaseOps
    /\ call.h # 0
    /\ call.fault # "none"
    /\ call.phase = "returned"
    /\ Count("delete") = 1

\* C4: a release/free operation called with the null handle returns without
\* any native call and leaves every object and session as it was.
C4_NullReleaseIsNoOp ==
    [][(call'.op \in ReleaseOps /\ call'.h = 0)
          => /\ calls' = <<>>
             /\ call'.phase = "returned"
             /\ call'.fault = "none"
             /\ heap' = heap
             /\ sessions' = sessions]_vars

\* C4 witness: freeNativeHandle(0) returned while an endpoint handle is live.
C4_NullFreeWithLiveEndpoint ==
    /\ call.op = "freeNativeHandle"
    /\ call.h = 0
    /\ call.phase = "returned"
    /\ \E a \in Addr : heap[a].kind = "endpoint" /\ heap[a].st = "live"

C6_MarkBeforeDelete ==
    /\ (call.op \in ObserverReleaseOps /\ call.h # 0)
           => LET full == <<Event("setObserverDeleted", call.h, 0),
                            Event("delete", call.h, 0)>>
              IN  /\ IsPrefix(calls, full)
                  /\ call.phase = "returned" => calls = full
                  /\ (call.fault = "none" /\ call.phase = "running")
                         => calls = <<Event("setObserverDeleted", call.h, 0)>>
    /\ \A a \in Addr :
           (heap[a].kind \in ObserverKinds /\ heap[a].st = "freed") => heap[a].marked

\* C6 witness: the release of a live stats listener handle has returned.
C6_StatsListenerReleased ==
    /\ call.op = "statsListenerRelease"
    /\ call.h # 0
    /\ call.fault = "none"
    /\ call.phase = "returned"

\* C7: freeNativeHandle on a non-null endpoint handle calls destroyEndpoint,
\* then resets the shared pointer, then deletes the box, each once and in this
\* order, and the box still holds its endpoint when destroyEndpoint is called.
C7_DestroyResetDelete ==
    (call.op = "freeNativeHandle" /\ call.h # 0)
        => /\ (call.phase = "returned" \/ calls # <<>>)
                  => /\ Len(calls) = 3
                     /\ calls[1].f = "destroyEndpoint" /\ calls[1].h = call.h
                     /\ calls[2] = Event("reset", call.h, 0)
                     /\ calls[3] = Event("delete", call.h, 0)
           /\ call.fault = "none"
                  => /\ call.phase = "returned"
                     /\ calls[1].arg = call.h
           /\ call.phase = "returned"
                  => heap[call.h].st = "freed" /\ heap[call.h].ref = 0

\* C7 witness: freeNativeHandle on a live endpoint handle has returned.
C7_EndpointFreed ==
    /\ call.op = "freeNativeHandle"
    /\ call.h # 0
    /\ call.fault = "none"
    /\ call.phase = "returned"

\* C8: no step creates or destroys a session, and listen, unlisten, reject,
\* nativeDisconnect and nativeGetStats leave every handle live or freed as it
\* was; a reject that returns has forwarded the session to the endpoint's reject.
C8_ForwardersKeepHandles ==
    [][/\ sessions' = sessions
       /\ call'.op \in ForwardOps => HandleStatus' = HandleStatus
       /\ (call'.op = "reject" /\ call'.phase = "returned")
              => calls' = <<Event("reject", call'.h, call'.h2)>>]_vars

\* C8 witness: reject on a live endpoint and a live session has returned.
C8_RejectForwarded ==
    /\ call.op = "reject"
    /\ call.fault = "none"
    /\ call.phase = "returned"
    /\ heap[call.h].st = "live"
    /\ sessions[call.h2] = "live"

\* C9: listen, unlisten, reject, nativeDisconnect and nativeGetStats
\* dereference their handle without a check: called with the null handle or
\* with a freed one they are a fault, neither a no-op nor an error return.
C9_UncheckedDereference ==
    (call.op \in ForwardOps /\ Status(call.h) # "live") => call.fault # "none"

\* C9 witness: listen was called with an endpoint handle already freed.
C9_ListenOnFreedHandle ==
    /\ call.op = "listen"
    /\ call.h # 0
    /\ heap[call.h].st = "freed"
    /\ call.fault = "use_after_free"

\* C10: for every array length, odd ones included, the marshaling loop
\* fetches only elements at indices in [0, length) and ends after
\* ceil(length/2) iterations.
C10_ReadsInRange ==
    call.op = "createEndpoint"
        => /\ \A k \in 1..Len(marshal.reads) :
                 marshal.reads[k] >= 0 /\ marshal.reads[k] < Len(marshal.arr)
           /\ Len(marshal.reads) = 2 * ((Len(marshal.arr) + 1) \div 2)

====
